---- MODULE Spec2Model ----
(***************************************************************************)
(* Model of the cross-chain type script src/c/crosschain_typescript.c:     *)
(* main (cell-group classification), verify_init and verify_transfer       *)
(* (capacity check, signing-message construction, signature recovery and   *)
(* validator matching).  One invocation of the script is one behaviour;    *)
(* the transaction and the host's answers are the inputs.                  *)
(***************************************************************************)
EXTENDS Integers, Sequences, FiniteSets, TLC

(***************************************************************************)
(* Bounds of the model.                                                    *)
(***************************************************************************)
\* largest number of cells in the script's input group / output group
MaxGroup == 2
\* largest number of transaction inputs
MaxInputs == 2
\* largest number of witnesses of the transaction
MaxWitnesses == 3
\* number of distinct public keys of the abstract curve
NumKeys == 2

\* The counter of get_cell_num is kept up to IdxCap; every larger value is
\* represented by IdxCap and the low bit of the excess (main only tells 0, 1
\* and "anything else" apart, and every index from MaxGroup on is beyond the
\* cells of a group).
IdxCap == IF MaxGroup < 2 THEN 2 ELSE MaxGroup

(***************************************************************************)
(* Program constants.                                                      *)
(***************************************************************************)
BLAKE2B_BLOCK_SIZE == 32
BLAKE160_SIZE == 20
PUBKEY_SIZE == 33
RECID_INDEX == 64
MAX_WITNESS_SIZE == 32768
SCRIPT_SIZE == 32768
SIGNATURE_SIZE == 65

ERROR_ARGUMENTS_LEN == -1
ERROR_ENCODING == -2
ERROR_SYSCALL == -3
ERROR_SCRIPT_TOO_LONG == -21
ERROR_GROUP_OUTPUT_INVALID == -100
ERROR_GROUP_INPUT_INVALID == -101
ERROR_CAPACITY_INVALID == -102
ERROR_VALIDATOR_SIGNATURE_INVALID == -103

\* codes and host statuses the file uses from its headers
ERROR_WITNESS_SIZE == -22
ERROR_SECP_RECOVER_PUBKEY == -11
ERROR_SECP_PARSE_SIGNATURE == -14
ERROR_SECP_SERIALIZE_PUBKEY == -15
SECP_ERROR_LOADING_DATA == -101
CKB_SUCCESS == 0
CKB_INDEX_OUT_OF_BOUND == 1
CKB_ITEM_MISSING == 2

(***************************************************************************)
(* Byte-sequence helpers.                                                  *)
(***************************************************************************)
Fill(n, b) == [j \in 1..n |-> b]

Min(a, b) == IF a < b THEN a ELSE b

\* 64-bit unsigned little-endian image of n, as it lies in memory
RECURSIVE ShiftRight8(_, _)
ShiftRight8(n, k) == IF k = 0 THEN n ELSE ShiftRight8(n \div 256, k - 1)

LE64(n) == [j \in 1..8 |-> ShiftRight8(n, j - 1) % 256]

\* memset(buf + off, 0, size)
Memset0(buf, off, size) ==
  [j \in 1..Len(buf) |-> IF j > off /\ j <= off + size THEN 0 ELSE buf[j]]

\* memcmp(a + off, b, n) == 0
MemEq(a, off, b, n) == \A j \in 1..n : a[off + j] = b[j]

(***************************************************************************)
(* External primitives: blake2b and the secp256k1 library.                 *)
(***************************************************************************)
\* the accumulator of blake2b_update calls is the byte stream fed so far;
\* blake2b_final digests it into 32 bytes
RECURSIVE Mix(_, _, _)
Mix(bytes, lo, hi) ==
  IF lo > hi THEN 0
  ELSE IF lo = hi THEN ((37 * lo + 11) * (bytes[lo] + 1)) % 65521
       ELSE LET mid == (lo + hi) \div 2 IN
            (Mix(bytes, lo, mid) + Mix(bytes, mid + 1, hi)) % 65521

Digest(h) ==
  [j \in 1..BLAKE2B_BLOCK_SIZE |->
     IF j = 1 THEN h % 256 ELSE IF j = 2 THEN h \div 256 ELSE (h + j) % 256]

Blake2b(bytes) == Digest((Mix(bytes, 1, Len(bytes)) + 7 * Len(bytes)) % 65521)

\* secp256k1_ecdsa_recoverable_signature_parse_compact: the recovery id must be 0..3
ParseCompact(sig) == sig[RECID_INDEX + 1] \in 0..3

\* secp256k1_ecdsa_recover: the key the signature recovers to for this message
\* (0: no valid point); a function of both the signature and the message
Recover(sig, msg) ==
  IF sig[1] = 0 THEN 0 ELSE ((sig[1] + sig[2] + msg[1] + msg[2]) % NumKeys) + 1

\* secp256k1_ec_pubkey_serialize, compressed form
Serialize(key) == [j \in 1..PUBKEY_SIZE |-> IF j = 1 THEN 2 ELSE key]

\* blake160 of a key: the first 20 bytes of the hash of its compressed form
Blake160(key) == SubSeq(Blake2b(Serialize(key)), 1, BLAKE160_SIZE)

(***************************************************************************)
(* Witness and script encodings (molecule), reduced to the fields read.    *)
(***************************************************************************)
\* A WitnessArgs buffer: a tag byte, the length of the lock field (0: absent),
\* the lock bytes, then the remaining fields.
WITNESS_TAG == 77

WitnessArgs(lock, rest) == <<WITNESS_TAG, Len(lock)>> \o lock \o rest

\* extract_witness_lock: 0 and the place of the lock bytes in the buffer, or
\* an encoding error
ExtractWitnessLock(buf, len) ==
  IF len < 2 \/ Len(buf) < 2 THEN [ret |-> ERROR_ENCODING, off |-> 0, size |-> 0]
  ELSE IF buf[1] # WITNESS_TAG \/ 2 + buf[2] > Len(buf)
       THEN [ret |-> ERROR_ENCODING, off |-> 0, size |-> 0]
       ELSE [ret |-> 0, off |-> 2, size |-> buf[2]]

(***************************************************************************)
(* The transactions an invocation is run on.                               *)
(***************************************************************************)
\* a signature: bytes 0 and 1 drive the recovery, byte 64 is the recovery id
Sig(a, b, recid) ==
  [j \in 1..SIGNATURE_SIZE |->
     IF j = 1 THEN a ELSE IF j = 2 THEN b ELSE IF j = SIGNATURE_SIZE THEN recid ELSE 9]

Signatures == {Sig(a, 0, 0) : a \in 0..2} \cup {Sig(1, 1, 4)}

\* a witness as the host holds it: its bytes and its length (an oversized
\* witness is kept by its length only)
Witness(bytes) == [bytes |-> bytes, len |-> Len(bytes)]

Oversized == [bytes |-> <<>>, len |-> MAX_WITNESS_SIZE + 1]

\* candidates for the witness of the first group input
FirstWitnesses ==
  {Witness(WitnessArgs(s, <<4, 5>>)) : s \in Signatures}
    \cup {Witness(WitnessArgs(<<>>, <<4, 5>>)),
          Witness(WitnessArgs(Fill(SIGNATURE_SIZE - 1, 9), <<>>)),
          Witness(WitnessArgs(Fill(SIGNATURE_SIZE + 1, 9), <<>>)),
          Witness(<<1, 2, 3>>),
          Oversized}

\* every other witness: opaque bytes
OtherWitnesses == {Witness(<<6, 7>>)}

\* validator sets: args of the running script
NearMiss(key) == [Blake160(key) EXCEPT ![BLAKE160_SIZE] = (@ + 1) % 256]

ArgsChoices ==
  {<<>>, Blake160(1), NearMiss(2) \o Blake160(1), Blake160(1) \o Blake160(2),
   <<7>> \o Blake160(1)}

\* the running script as the host holds it: its size, whether it decodes as a
\* Script record, and its args
Scripts ==
  {[size |-> 53 + Len(a), valid |-> TRUE, args |-> a] : a \in ArgsChoices}
    \cup {[size |-> 53, valid |-> FALSE, args |-> <<>>],
          [size |-> SCRIPT_SIZE + 1, valid |-> TRUE, args |-> <<>>]}

TxHashes == {Fill(BLAKE2B_BLOCK_SIZE, 1), Fill(BLAKE2B_BLOCK_SIZE, 2)}

\* capacities of group input 0 and group output 0
CapacityPairs == {<<1000, 1000>>, <<1000, 999>>, <<999, 1000>>}

\* indices (0-based, increasing) of the transaction inputs that are in the
\* group, for a transaction of n inputs
RECURSIVE Increasing(_, _)
Increasing(n, k) ==
  IF k = 0 THEN {<<>>}
  ELSE {Append(g, a) : g \in Increasing(n, k - 1), a \in 0..(n - 1)}

GroupChoices(n) ==
  {g \in UNION {Increasing(n, k) : k \in 0..Min(n, MaxGroup)} :
     \A j \in 1..(Len(g) - 1) : g[j] < g[j + 1]}

\* witness lists of length k for a transaction whose first group input is at
\* index g0 (g0 = -1: no group input)
RECURSIVE WitnessLists(_, _)
WitnessLists(k, g0) ==
  IF k = 0 THEN {<<>>}
  ELSE {Append(ws, w) : ws \in WitnessLists(k - 1, g0),
                        w \in IF k - 1 = g0 THEN FirstWitnesses ELSE OtherWitnesses}

FirstGroupInput(g) == IF Len(g) = 0 THEN -1 ELSE g[1]

Transaction(s, n, g, o, c, ws, h) ==
  [script |-> s, numInputs |-> n, groupIn |-> g, numGroupOut |-> o,
   inCap |-> c[1], outCap |-> c[2], witnesses |-> ws, txHash |-> h]

(***************************************************************************)
(* The host's data-access calls.  Each returns the status the transaction  *)
(* determines, or fails with another error.  Lengths cross the interface   *)
(* as 64-bit values: where verify_transfer passes its int len, the model   *)
(* takes the 8 bytes at &len to hold the length the host stored there.     *)
(***************************************************************************)
HostRets(ret) == {ret, CKB_ITEM_MISSING}

\* ckb_load_cell_data(.., index, source): is there a cell at the index
LoadCellData(t, index, isInput) ==
  HostRets(IF index < (IF isInput THEN Len(t.groupIn) ELSE t.numGroupOut)
           THEN CKB_SUCCESS ELSE CKB_INDEX_OUT_OF_BOUND)

\* ckb_load_cell_by_field(.., 0, source, CKB_CELL_FIELD_CAPACITY)
LoadCellByField(t, isInput) ==
  HostRets(IF 0 < (IF isInput THEN Len(t.groupIn) ELSE t.numGroupOut)
           THEN CKB_SUCCESS ELSE CKB_INDEX_OUT_OF_BOUND)

\* ckb_load_script, ckb_load_tx_hash
LoadScript == HostRets(CKB_SUCCESS)

LoadTxHash == HostRets(CKB_SUCCESS)

\* the transaction index of witness `index` of a source (-1: none)
WitnessIndex(t, index, isGroup) ==
  IF isGroup
  THEN IF index < Len(t.groupIn) THEN t.groupIn[index + 1] ELSE -1
  ELSE index

\* ckb_load_witness(.., index, source)
LoadWitness(t, index, isGroup) ==
  LET w == WitnessIndex(t, index, isGroup) IN
  HostRets(IF w >= 0 /\ w < Len(t.witnesses)
           THEN CKB_SUCCESS ELSE CKB_INDEX_OUT_OF_BOUND)

WitnessAt(t, index, isGroup) == t.witnesses[WitnessIndex(t, index, isGroup) + 1]

\* calculate_inputs_len
CalculateInputsLen(t) == t.numInputs

\* ckb_secp256k1_custom_verify_only_initialize
SecpInitialize == {0, SECP_ERROR_LOADING_DATA}

(***************************************************************************)
(* State of one invocation.                                                *)
(***************************************************************************)
VARIABLES
  tx,                \* the transaction the host serves
  pc,                \* the statement the invocation is at
  status,            \* exit status, once pc = "done"
  stages,            \* the stages entered so far, in order
  hostErr,           \* status of the last host call that failed with an
                     \* error other than index-out-of-bound (0: none)
  script,            \* script buffer of main, as last loaded
  i,                 \* loop counter of get_cell_num / the witness loops
  wrap,              \* low bit of the part of get_cell_num's counter above IdxCap
  input_group_num, output_group_num,
  input_capacity, output_capacity,
  args_bytes,        \* args_bytes_seg
  temp,              \* the scratch buffer
  witness_len,
  lock_seg,          \* lock_bytes_seg: offset and size inside temp
  lock_bytes,        \* the signature copied aside
  tx_hash,
  ctx,               \* blake2b_ctx: the bytes fed so far
  message,
  pubkey,            \* the recovered key
  index              \* position in args of the chunk compared next

vars ==
  <<tx, pc, status, stages, hostErr, script, i, wrap, input_group_num,
    output_group_num, input_capacity, output_capacity, args_bytes, temp,
    witness_len, lock_seg, lock_bytes, tx_hash, ctx, message, pubkey, index>>

mainVars == <<script, wrap, input_group_num, output_group_num>>
capVars == <<input_capacity, output_capacity>>
witVars == <<args_bytes, temp, witness_len, lock_seg, lock_bytes, tx_hash>>
sigVars == <<ctx, message, pubkey, index>>

\* the stage of the design each statement belongs to
StageOf(p) ==
  CASE p \in {"main", "count_in", "count_out", "classify"} -> "classifier"
    [] p = "verify_init" -> "init"
    [] p \in {"load_input_capacity", "load_output_capacity", "check_capacity"}
         -> "capacity"
    [] p \in {"load_args", "load_witness", "extract_lock", "load_tx_hash",
              "hash_first", "hash_group", "inputs_len", "hash_extra", "final"}
         -> "message"
    [] p \in {"secp_init", "parse", "recover", "serialize"} -> "signature"
    [] p \in {"hash_pubkey", "match"} -> "matcher"
    [] OTHER -> "done"

StageRank(stage) ==
  CASE stage = "classifier" -> 0
    [] stage = "init" -> 1
    [] stage = "capacity" -> 1
    [] stage = "message" -> 2
    [] stage = "signature" -> 3
    [] stage = "matcher" -> 4
    [] OTHER -> 5

\* the stage the invocation is in, or returned from
exitStage == stages[Len(stages)]

\* return code;
Return(code) ==
  /\ pc' = "done"
  /\ status' = code
  /\ UNCHANGED stages

Goto(p) ==
  /\ pc' = p
  /\ stages' = IF StageOf(p) = exitStage THEN stages ELSE Append(stages, StageOf(p))
  /\ UNCHANGED status

\* a host call answered with `ret`
Host(ret) ==
  hostErr' = IF ret \notin {CKB_SUCCESS, CKB_INDEX_OUT_OF_BOUND} THEN ret ELSE hostErr

Init ==
  /\ \E n \in 1..MaxInputs, o \in 0..MaxGroup, k \in 0..MaxWitnesses :
       \E g \in GroupChoices(n), s \in Scripts, c \in CapacityPairs, h \in TxHashes :
         \E ws \in WitnessLists(k, FirstGroupInput(g)) :
           tx = Transaction(s, n, g, o, c, ws, h)
  /\ pc = "main"
  /\ status = 0
  /\ stages = <<"classifier">>
  /\ hostErr = 0
  /\ script = [size |-> 0, valid |-> FALSE, args |-> <<>>]
  /\ i = 0
  /\ wrap = 0
  /\ input_group_num = 0
  /\ output_group_num = 0
  /\ input_capacity = 0
  /\ output_capacity = 0
  /\ args_bytes = <<>>
  /\ temp = <<>>
  /\ witness_len = 0
  /\ lock_seg = [off |-> 0, size |-> 0]
  /\ lock_bytes = <<>>
  /\ tx_hash = <<>>
  /\ ctx = <<>>
  /\ message = <<>>
  /\ pubkey = 0
  /\ index = 0

(***************************************************************************)
(* main                                                                    *)
(***************************************************************************)
\* main: load the running script
MainLoadScript ==
  /\ pc = "main"
  /\ \E ret \in LoadScript :
       /\ Host(ret)
       /\ IF ret # CKB_SUCCESS
          THEN Return(ERROR_SYSCALL) /\ UNCHANGED script
          ELSE /\ script' = tx.script
               /\ IF tx.script.size > SCRIPT_SIZE
                  THEN Return(ERROR_SCRIPT_TOO_LONG)
                  ELSE Goto("count_in")
  /\ UNCHANGED <<tx, i, wrap, input_group_num, output_group_num>>
  /\ UNCHANGED <<capVars, witVars, sigVars>>

\* one iteration of the loop of get_cell_num, for the source main counts
get_cell_num ==
  /\ pc \in {"count_in", "count_out"}
  /\ \E ret \in LoadCellData(tx, i, pc = "count_in") :
       /\ Host(ret)
       /\ IF ret = CKB_INDEX_OUT_OF_BOUND
          THEN /\ i' = 0
               /\ wrap' = 0
               /\ IF pc = "count_in"
                  THEN /\ input_group_num' = i
                       /\ Goto("count_out")
                       /\ UNCHANGED output_group_num
                  ELSE /\ output_group_num' = i
                       /\ Goto("classify")
                       /\ UNCHANGED input_group_num
          ELSE /\ i' = Min(i + 1, IdxCap)
               /\ wrap' = IF i = IdxCap THEN 1 - wrap ELSE wrap
               /\ Goto(pc)
               /\ UNCHANGED <<input_group_num, output_group_num>>
  /\ UNCHANGED <<tx, script, capVars, witVars, sigVars>>

\* a bug: more than one group output passes
OutputCountInvalid_Zero(n) == n = 0

\* output_group_num != 1
OutputCountInvalid(n) == n # 1

\* a bug: any number of group inputs passes
InputCountInvalid_Never(n) == FALSE

\* input_group_num != 0 && input_group_num != 1
InputCountInvalid(n) == n # 0 /\ n # 1

\* main: the checks of the two counts and the dispatch
Classify ==
  /\ pc = "classify"
  /\ IF OutputCountInvalid(output_group_num) THEN Return(ERROR_GROUP_OUTPUT_INVALID)
     ELSE IF InputCountInvalid(input_group_num)
          THEN Return(ERROR_GROUP_INPUT_INVALID)
          ELSE IF input_group_num = 0 THEN Goto("verify_init")
               ELSE Goto("load_input_capacity")
  /\ UNCHANGED <<tx, hostErr, i, mainVars, capVars, witVars, sigVars>>

\* a bug: the Init path checks the capacities
verify_init_CapacityChecked ==
  /\ pc = "verify_init"
  /\ IF tx.inCap > tx.outCap THEN Return(ERROR_CAPACITY_INVALID) ELSE Return(CKB_SUCCESS)
  /\ UNCHANGED <<tx, hostErr, i, mainVars, capVars, witVars, sigVars>>

verify_init ==
  /\ pc = "verify_init"
  /\ Return(CKB_SUCCESS)
  /\ UNCHANGED <<tx, hostErr, i, mainVars, capVars, witVars, sigVars>>

(***************************************************************************)
(* verify_transfer: capacity                                               *)
(***************************************************************************)
LoadInputCapacity ==
  /\ pc = "load_input_capacity"
  /\ \E ret \in LoadCellByField(tx, TRUE) :
       /\ Host(ret)
       /\ IF ret # CKB_SUCCESS
          THEN Return(ret) /\ UNCHANGED input_capacity
          ELSE input_capacity' = tx.inCap /\ Goto("load_output_capacity")
  /\ UNCHANGED <<tx, i, mainVars, output_capacity, witVars, sigVars>>

LoadOutputCapacity ==
  /\ pc = "load_output_capacity"
  /\ \E ret \in LoadCellByField(tx, FALSE) :
       /\ Host(ret)
       /\ IF ret # CKB_SUCCESS
          THEN Return(ret) /\ UNCHANGED output_capacity
          ELSE output_capacity' = tx.outCap /\ Goto("check_capacity")
  /\ UNCHANGED <<tx, i, mainVars, input_capacity, witVars, sigVars>>

\* a bug: the comparison the other way round
CapacityInvalid_Reversed(in, out) == in < out

\* input_capacity > output_capacity
CapacityInvalid(in, out) == in > out

CheckCapacity ==
  /\ pc = "check_capacity"
  /\ IF CapacityInvalid(input_capacity, output_capacity)
     THEN Return(ERROR_CAPACITY_INVALID)
     ELSE Goto("load_args")
  /\ UNCHANGED <<tx, hostErr, i, mainVars, capVars, witVars, sigVars>>

(***************************************************************************)
(* verify_transfer: the signing message                                    *)
(***************************************************************************)
\* a bug: a trailing partial chunk is let through
ArgsLenInvalid_Never(args) == FALSE

\* args_bytes_seg.size % BLAKE160_SIZE != 0
ArgsLenInvalid(args) == Len(args) % BLAKE160_SIZE # 0

\* reload the script, decode it and take its args
LoadArgs ==
  /\ pc = "load_args"
  /\ \E ret \in LoadScript :
       /\ Host(ret)
       /\ IF ret # CKB_SUCCESS
          THEN Return(ERROR_SYSCALL) /\ UNCHANGED <<script, args_bytes>>
          ELSE /\ script' = tx.script
               /\ IF tx.script.size > SCRIPT_SIZE
                  THEN Return(ERROR_SCRIPT_TOO_LONG) /\ UNCHANGED args_bytes
                  ELSE IF ~tx.script.valid
                       THEN Return(ERROR_ENCODING) /\ UNCHANGED args_bytes
                       ELSE /\ args_bytes' = tx.script.args
                            /\ IF ArgsLenInvalid(tx.script.args)
                               THEN Return(ERROR_ARGUMENTS_LEN)
                               ELSE Goto("load_witness")
  /\ UNCHANGED <<tx, i, wrap, input_group_num, output_group_num, capVars>>
  /\ UNCHANGED <<temp, witness_len, lock_seg, lock_bytes, tx_hash, sigVars>>

\* load the witness of the first group input into temp
LoadFirstWitness ==
  /\ pc = "load_witness"
  /\ \E ret \in LoadWitness(tx, 0, TRUE) :
       /\ Host(ret)
       /\ IF ret # CKB_SUCCESS
          THEN Return(ERROR_SYSCALL) /\ UNCHANGED <<temp, witness_len>>
          ELSE /\ temp' = WitnessAt(tx, 0, TRUE).bytes
               /\ witness_len' = WitnessAt(tx, 0, TRUE).len
               /\ IF WitnessAt(tx, 0, TRUE).len > MAX_WITNESS_SIZE
                  THEN Return(ERROR_WITNESS_SIZE)
                  ELSE Goto("extract_lock")
  /\ UNCHANGED <<tx, i, mainVars, capVars, sigVars>>
  /\ UNCHANGED <<args_bytes, lock_seg, lock_bytes, tx_hash>>

\* find the lock field, check its length, copy the signature aside
ExtractLock ==
  /\ pc = "extract_lock"
  /\ LET r == ExtractWitnessLock(temp, witness_len) IN
       IF r.ret # 0
       THEN Return(ERROR_ENCODING) /\ UNCHANGED <<lock_seg, lock_bytes>>
       ELSE /\ lock_seg' = [off |-> r.off, size |-> r.size]
            /\ IF r.size # SIGNATURE_SIZE
               THEN Return(ERROR_ARGUMENTS_LEN) /\ UNCHANGED lock_bytes
               ELSE /\ lock_bytes' = SubSeq(temp, r.off + 1, r.off + r.size)
                    /\ Goto("load_tx_hash")
  /\ UNCHANGED <<tx, hostErr, i, mainVars, capVars, sigVars>>
  /\ UNCHANGED <<args_bytes, temp, witness_len, tx_hash>>

LoadTxHashStep ==
  /\ pc = "load_tx_hash"
  /\ \E ret \in LoadTxHash :
       /\ Host(ret)
       /\ IF ret # CKB_SUCCESS
          THEN Return(ret) /\ UNCHANGED tx_hash
          ELSE /\ tx_hash' = tx.txHash
               /\ IF Len(tx.txHash) # BLAKE2B_BLOCK_SIZE
                  THEN Return(ERROR_SYSCALL)
                  ELSE Goto("hash_first")
  /\ UNCHANGED <<tx, i, mainVars, capVars, sigVars>>
  /\ UNCHANGED <<args_bytes, temp, witness_len, lock_seg, lock_bytes>>

\* a bug: the recovery id is left in place
MaskLock_Short(buf, seg) == Memset0(buf, seg.off, seg.size - 1)

\* the witness buffer with the place of the signature zeroed
MaskLock(buf, seg) == Memset0(buf, seg.off, seg.size)

\* what one witness adds to the hash: its length as 8 bytes, then its bytes
FeedWitness(len, buf) == LE64(len) \o SubSeq(buf, 1, len)

\* start the hash with the transaction hash, mask the signature in temp and
\* feed the first witness
HashFirstWitness ==
  /\ pc = "hash_first"
  /\ temp' = MaskLock(temp, lock_seg)
  /\ ctx' = tx_hash \o FeedWitness(witness_len, temp')
  /\ i' = 1
  /\ Goto("hash_group")
  /\ UNCHANGED <<tx, hostErr, mainVars, capVars, message, pubkey, index>>
  /\ UNCHANGED <<args_bytes, witness_len, lock_seg, lock_bytes, tx_hash>>

\* one iteration of a witness loop over a source; `next` follows the loop
HashWitnessLoop(isGroup, next) ==
  \E ret \in LoadWitness(tx, i, isGroup) :
    /\ Host(ret)
    /\ IF ret = CKB_INDEX_OUT_OF_BOUND
       THEN Goto(next) /\ UNCHANGED <<temp, ctx, i>>
       ELSE IF ret # CKB_SUCCESS
            THEN Return(ERROR_SYSCALL) /\ UNCHANGED <<temp, ctx, i>>
            ELSE /\ temp' = WitnessAt(tx, i, isGroup).bytes
                 /\ IF WitnessAt(tx, i, isGroup).len > MAX_WITNESS_SIZE
                    THEN Return(ERROR_WITNESS_SIZE) /\ UNCHANGED <<ctx, i>>
                    ELSE /\ ctx' = ctx \o FeedWitness(WitnessAt(tx, i, isGroup).len, temp')
                         /\ i' = i + 1
                         /\ Goto(pc)

\* the witnesses of the remaining inputs of the group
HashGroupWitnesses ==
  /\ pc = "hash_group"
  /\ HashWitnessLoop(TRUE, "inputs_len")
  /\ UNCHANGED <<tx, mainVars, capVars, message, pubkey, index>>
  /\ UNCHANGED <<args_bytes, witness_len, lock_seg, lock_bytes, tx_hash>>

\* a bug: the second loop starts after the group inputs, not after all inputs
InputsLen_Group ==
  /\ pc = "inputs_len"
  /\ i' = input_group_num
  /\ Goto("hash_extra")
  /\ UNCHANGED <<tx, hostErr, mainVars, capVars, witVars, sigVars>>

\* i = calculate_inputs_len()
InputsLen ==
  /\ pc = "inputs_len"
  /\ i' = CalculateInputsLen(tx)
  /\ Goto("hash_extra")
  /\ UNCHANGED <<tx, hostErr, mainVars, capVars, witVars, sigVars>>

\* the witnesses beyond the inputs
HashExtraWitnesses ==
  /\ pc = "hash_extra"
  /\ HashWitnessLoop(FALSE, "final")
  /\ UNCHANGED <<tx, mainVars, capVars, message, pubkey, index>>
  /\ UNCHANGED <<args_bytes, witness_len, lock_seg, lock_bytes, tx_hash>>

Finalize ==
  /\ pc = "final"
  /\ message' = Blake2b(ctx)
  /\ Goto("secp_init")
  /\ UNCHANGED <<tx, hostErr, i, mainVars, capVars, witVars, ctx, pubkey, index>>

(***************************************************************************)
(* verify_transfer: signature recovery and validator matching              *)
(***************************************************************************)
SecpInit ==
  /\ pc = "secp_init"
  /\ \E ret \in SecpInitialize :
       IF ret # 0 THEN Return(ret) ELSE Goto("parse")
  /\ UNCHANGED <<tx, hostErr, i, mainVars, capVars, witVars, sigVars>>

ParseSignature ==
  /\ pc = "parse"
  /\ IF ~ParseCompact(lock_bytes)
     THEN Return(ERROR_SECP_PARSE_SIGNATURE)
     ELSE Goto("recover")
  /\ UNCHANGED <<tx, hostErr, i, mainVars, capVars, witVars, sigVars>>

RecoverPubkey ==
  /\ pc = "recover"
  /\ IF Recover(lock_bytes, message) = 0
     THEN Return(ERROR_SECP_RECOVER_PUBKEY) /\ UNCHANGED pubkey
     ELSE pubkey' = Recover(lock_bytes, message) /\ Goto("serialize")
  /\ UNCHANGED <<tx, hostErr, i, mainVars, capVars, witVars, ctx, message, index>>

SerializePubkey ==
  /\ pc = "serialize"
  /\ IF Len(Serialize(pubkey)) # PUBKEY_SIZE
     THEN Return(ERROR_SECP_SERIALIZE_PUBKEY) /\ UNCHANGED temp
     ELSE temp' = Serialize(pubkey) /\ Goto("hash_pubkey")
  /\ UNCHANGED <<tx, hostErr, i, mainVars, capVars, sigVars>>
  /\ UNCHANGED <<args_bytes, witness_len, lock_seg, lock_bytes, tx_hash>>

\* hash the serialized key into temp
HashPubkey ==
  /\ pc = "hash_pubkey"
  /\ temp' = Blake2b(SubSeq(temp, 1, PUBKEY_SIZE))
  /\ index' = 0
  /\ Goto("match")
  /\ UNCHANGED <<tx, hostErr, i, mainVars, capVars, ctx, message, pubkey>>
  /\ UNCHANGED <<args_bytes, witness_len, lock_seg, lock_bytes, tx_hash>>

\* a bug: one byte too few is compared
ChunkMatches_Short(args, at, hash) == MemEq(args, at, hash, BLAKE160_SIZE - 1)

\* does the chunk of args at `at` equal the first 20 bytes of the hash
ChunkMatches(args, at, hash) == MemEq(args, at, hash, BLAKE160_SIZE)

\* one iteration of the scan of args; after the last chunk, the failure
MatchValidator ==
  /\ pc = "match"
  /\ IF index + BLAKE160_SIZE <= Len(args_bytes)
     THEN IF ChunkMatches(args_bytes, index, temp)
          THEN Return(CKB_SUCCESS) /\ UNCHANGED index
          ELSE index' = index + BLAKE160_SIZE /\ Goto(pc)
     ELSE Return(ERROR_VALIDATOR_SIGNATURE_INVALID) /\ UNCHANGED index
  /\ UNCHANGED <<tx, hostErr, i, mainVars, capVars, witVars, ctx, message, pubkey>>

(***************************************************************************)
(* Specifications                                                          *)
(***************************************************************************)
Next ==
  \/ MainLoadScript
  \/ get_cell_num
  \/ Classify
  \/ verify_init
  \/ LoadInputCapacity
  \/ LoadOutputCapacity
  \/ CheckCapacity
  \/ LoadArgs
  \/ LoadFirstWitness
  \/ ExtractLock
  \/ LoadTxHashStep
  \/ HashFirstWitness
  \/ HashGroupWitnesses
  \/ InputsLen
  \/ HashExtraWitnesses
  \/ Finalize
  \/ SecpInit
  \/ ParseSignature
  \/ RecoverPubkey
  \/ SerializePubkey
  \/ HashPubkey
  \/ MatchValidator

Spec == Init /\ [][Next]_vars

\* the invocation is a single thread that the virtual machine keeps running
FairSpec == Init /\ [][Next]_vars /\ WF_vars(Next)

(***************************************************************************)
(* Properties                                                              *)
(***************************************************************************)
Done == pc = "done"

\* main's script load succeeded and the script fits the buffer
ScriptLoaded == script = tx.script /\ script.size <= SCRIPT_SIZE

\* the 20-byte chunks of a validator set
Chunks(args) ==
  {SubSeq(args, BLAKE160_SIZE * c + 1, BLAKE160_SIZE * (c + 1)) :
     c \in 0..((Len(args) \div BLAKE160_SIZE) - 1)}

\* the transaction has a witness for its first group input
HasFirstWitness ==
  /\ Len(tx.groupIn) >= 1
  /\ tx.groupIn[1] < Len(tx.witnesses)

\* the size of the lock field of that witness (-1: it does not decode)
FirstLockSize ==
  LET w == WitnessAt(tx, 0, TRUE) IN
  IF ExtractWitnessLock(w.bytes, w.len).ret # 0 THEN -1
  ELSE ExtractWitnessLock(w.bytes, w.len).size

\* C1: a transaction with exactly one group input and one group output is
\* accepted only if the input capacity is at most the output capacity, the
\* lock field of the group's witness 0 is 65 bytes, and the short hash of the
\* key recovered from that signature over the digest is one of the 20-byte
\* chunks of the script args.
C1_AcceptRequires ==
  (Done /\ status = CKB_SUCCESS /\ Len(tx.groupIn) = 1 /\ tx.numGroupOut = 1)
    => /\ tx.inCap <= tx.outCap
       /\ HasFirstWitness
       /\ FirstLockSize = SIGNATURE_SIZE
       /\ LET w == WitnessAt(tx, 0, TRUE).bytes
              sig == SubSeq(w, 3, 2 + SIGNATURE_SIZE)
          IN  /\ Recover(sig, message) # 0
              /\ Blake160(Recover(sig, message)) \in Chunks(tx.script.args)

\* an accepted transfer whose matching validator is not the first chunk
C1_Witness ==
  /\ Done /\ status = CKB_SUCCESS
  /\ Len(tx.groupIn) = 1 /\ tx.numGroupOut = 1
  /\ index > 0

\* C2 (as stated, for a host that fails no call): whenever the number of
\* group-output cells is not 1, the invocation ends with
\* ERROR_GROUP_OUTPUT_INVALID.
C2_Original ==
  (Done /\ hostErr = 0 /\ tx.numGroupOut # 1) => status = ERROR_GROUP_OUTPUT_INVALID

\* C2 (amended): once main's script load has succeeded with a script that
\* fits the buffer, a group-output count (as get_cell_num counts it) other
\* than 1 ends the invocation with ERROR_GROUP_OUTPUT_INVALID, for every
\* group-input count.
C2_OutputCountRejects ==
  (Done /\ ScriptLoaded /\ output_group_num # 1)
    => /\ status = ERROR_GROUP_OUTPUT_INVALID
       /\ exitStage = "classifier"

\* rejected for the output count although the input count is wrong too
C2_Witness ==
  /\ Done /\ ScriptLoaded
  /\ output_group_num = 0 /\ tx.numGroupOut = 0
  /\ input_group_num > 1
  /\ status = ERROR_GROUP_OUTPUT_INVALID

\* C3 (as stated, for a host that fails no call and a script that fits the
\* buffer): whenever there is more than one group-input cell, the invocation
\* ends with ERROR_GROUP_INPUT_INVALID.
C3_Original ==
  (Done /\ hostErr = 0 /\ ScriptLoaded /\ Len(tx.groupIn) > 1)
    => status = ERROR_GROUP_INPUT_INVALID

\* C3 (amended): with more than one group-input cell the invocation ends with
\* ERROR_GROUP_INPUT_INVALID provided main's script load has succeeded with a
\* script that fits the buffer and the group-output count is exactly 1.
C3_InputCountRejects ==
  (Done /\ ScriptLoaded /\ output_group_num = 1
     /\ (Len(tx.groupIn) > 1 \/ input_group_num > 1))
    => /\ status = ERROR_GROUP_INPUT_INVALID
       /\ exitStage = "classifier"

C3_Witness ==
  /\ Done /\ ScriptLoaded
  /\ output_group_num = 1 /\ tx.numGroupOut = 1
  /\ Len(tx.groupIn) = 2
  /\ status = ERROR_GROUP_INPUT_INVALID

\* nothing of verify_transfer has run
TransferUntouched ==
  /\ input_capacity = 0 /\ output_capacity = 0
  /\ args_bytes = <<>> /\ temp = <<>> /\ lock_bytes = <<>>
  /\ tx_hash = <<>> /\ ctx = <<>> /\ message = <<>> /\ pubkey = 0

\* C4 (as stated, for a host that fails no call and a script that fits the
\* buffer): every transaction with zero group-input cells is accepted.
C4_Original ==
  (Done /\ hostErr = 0 /\ ScriptLoaded /\ Len(tx.groupIn) = 0) => status = CKB_SUCCESS

\* C4 (amended): when main's script load has succeeded with a script that
\* fits the buffer, the group-output count is exactly 1 and the group-input
\* count is 0, the invocation accepts whatever the capacities, witnesses and
\* args are, and none of the checks of verify_transfer is run.
C4_InitAccepts ==
  (Done /\ ScriptLoaded /\ output_group_num = 1 /\ input_group_num = 0)
    => /\ status = CKB_SUCCESS
       /\ exitStage = "init"
       /\ TransferUntouched

\* accepted on the Init path with a capacity decrease, an args length that is
\* no multiple of 20 and no witness at all
C4_Witness ==
  /\ Done /\ status = CKB_SUCCESS /\ exitStage = "init"
  /\ Len(tx.groupIn) = 0
  /\ tx.inCap > tx.outCap
  /\ Len(tx.script.args) % BLAKE160_SIZE # 0
  /\ tx.witnesses = <<>>

\* C5 (as stated, for a host that fails no call and a script that fits the
\* buffer): whenever the args length is not a multiple of 20 the invocation
\* ends with ERROR_ARGUMENTS_LEN.
C5_Original ==
  (Done /\ hostErr = 0 /\ ScriptLoaded /\ Len(tx.script.args) % BLAKE160_SIZE # 0)
    => status = ERROR_ARGUMENTS_LEN

\* C5 (amended): an invocation that gets past the capacity check of the
\* Transfer path with args whose length is not a multiple of 20 ends with
\* ERROR_ARGUMENTS_LEN before any witness is loaded, whatever the witnesses
\* and the signature are, unless the host fails the reload of the script
\* (ERROR_SYSCALL).
C5_ArgsLenRejects ==
  (Done /\ Len(tx.script.args) % BLAKE160_SIZE # 0
     /\ exitStage \notin {"classifier", "init", "capacity"})
    => /\ exitStage = "message"
       /\ temp = <<>> /\ ctx = <<>>
       /\ \/ status = ERROR_ARGUMENTS_LEN /\ args_bytes = tx.script.args
          \/ status = ERROR_SYSCALL /\ hostErr # 0 /\ args_bytes = <<>>

\* rejected for the args length although witness 0 carries a signature
C5_Witness ==
  /\ Done /\ status = ERROR_ARGUMENTS_LEN
  /\ Len(tx.script.args) % BLAKE160_SIZE # 0
  /\ HasFirstWitness /\ FirstLockSize = SIGNATURE_SIZE

\* the buffer with the bytes of the lock field replaced by another signature
ReplaceLock(buf, off, s) ==
  [j \in 1..Len(buf) |-> IF j > off /\ j <= off + Len(s) THEN s[j - off] ELSE buf[j]]

\* the raw feed of the witnesses of a source from index `from` on
RECURSIVE RawFeed(_, _, _)
RawFeed(t, from, isGroup) ==
  LET w == WitnessIndex(t, from, isGroup) IN
  IF w < 0 \/ w >= Len(t.witnesses) THEN <<>>
  ELSE LE64(t.witnesses[w + 1].len) \o t.witnesses[w + 1].bytes
         \o RawFeed(t, from + 1, isGroup)

\* length of what the transaction hash and witness 0 add to the hash
FirstFeedLen == BLAKE2B_BLOCK_SIZE + 8 + WitnessAt(tx, 0, TRUE).len

\* C6: the bytes fed to the hash are the same whatever the 65 bytes of the
\* lock field of witness 0 are: the lock bytes are copied aside as the
\* signature, they are zero in the witness-0 bytes that are hashed, every
\* other byte of witness 0 is hashed as it is, and no later witness is masked.
C6_Masking ==
  (ctx # <<>>) =>
    LET w == WitnessAt(tx, 0, TRUE).bytes IN
    /\ lock_bytes = SubSeq(w, 3, 2 + SIGNATURE_SIZE)
    /\ \A j \in 1..Len(w) :
         ctx[BLAKE2B_BLOCK_SIZE + 8 + j] = IF j \in 3..(2 + SIGNATURE_SIZE) THEN 0 ELSE w[j]
    /\ \A s \in Signatures \cup {Fill(SIGNATURE_SIZE, 0)} :
         SubSeq(ctx, 1, FirstFeedLen)
           = tx.txHash \o LE64(Len(w)) \o Memset0(ReplaceLock(w, 2, s), 2, SIGNATURE_SIZE)
    /\ (message # <<>>) =>
         SubSeq(ctx, FirstFeedLen + 1, Len(ctx))
           = RawFeed(tx, 1, TRUE) \o RawFeed(tx, tx.numInputs, FALSE)

\* a digest was built from a witness 0 whose signature bytes are not zero
C6_Witness ==
  /\ message # <<>>
  /\ lock_bytes[1] # 0
  /\ Len(tx.witnesses) > tx.numInputs

\* C7: a host call that fails with an error other than index-out-of-bound
\* ends the invocation at once with ERROR_SYSCALL.
C7_HostFailureRejects ==
  (hostErr # 0) => (Done /\ status = ERROR_SYSCALL)

\* the byte stream the design prescribes for a transaction
ExpectedStream(t) ==
  LET w == WitnessAt(t, 0, TRUE) IN
  t.txHash \o LE64(w.len) \o Memset0(w.bytes, 2, SIGNATURE_SIZE)
    \o RawFeed(t, 1, TRUE) \o RawFeed(t, t.numInputs, FALSE)

\* C8: when the digest is finalised, the bytes fed to the hash are exactly
\* the transaction hash, the length and the masked bytes of witness 0, length
\* and bytes of the group witnesses 1, 2, ... in order, then length and bytes
\* of the witnesses n, n + 1, ... of the whole transaction in order (n the
\* number of inputs); the digest is the hash of that stream.
C8_FeedOrder ==
  (message # <<>>) =>
    /\ ctx = ExpectedStream(tx)
    /\ message = Blake2b(ExpectedStream(tx))

\* a finalised digest of a transaction that has a witness beyond its inputs
\* and a witness of an input outside the group
C8_Witness ==
  /\ message # <<>>
  /\ Len(tx.witnesses) > tx.numInputs
  /\ tx.groupIn = <<1>>

\* the status a stage may return
StageCodes(stage) ==
  CASE stage = "classifier" ->
         {ERROR_SYSCALL, ERROR_SCRIPT_TOO_LONG, ERROR_GROUP_OUTPUT_INVALID,
          ERROR_GROUP_INPUT_INVALID}
    [] stage = "init" -> {CKB_SUCCESS}
    [] stage = "capacity" ->
         {ERROR_CAPACITY_INVALID, CKB_INDEX_OUT_OF_BOUND, CKB_ITEM_MISSING}
    [] stage = "message" ->
         {ERROR_SYSCALL, ERROR_SCRIPT_TOO_LONG, ERROR_ENCODING, ERROR_ARGUMENTS_LEN,
          ERROR_WITNESS_SIZE, CKB_ITEM_MISSING}
    [] stage = "signature" ->
         {SECP_ERROR_LOADING_DATA, ERROR_SECP_PARSE_SIGNATURE,
          ERROR_SECP_RECOVER_PUBKEY, ERROR_SECP_SERIALIZE_PUBKEY}
    [] stage = "matcher" -> {CKB_SUCCESS, ERROR_VALIDATOR_SIGNATURE_INVALID}
    [] OTHER -> {}

\* what the exit of a Transfer says about the stages
ExitOfTransfer ==
  /\ status \in StageCodes(exitStage)
  /\ (status = CKB_SUCCESS) => (exitStage \in {"init", "matcher"})
  /\ (input_capacity = tx.inCap /\ output_capacity = tx.outCap
        /\ tx.inCap > tx.outCap)
       => (status = ERROR_CAPACITY_INVALID /\ exitStage = "capacity"
             /\ args_bytes = <<>> /\ temp = <<>>)
  /\ (status = ERROR_CAPACITY_INVALID) => (tx.inCap > tx.outCap)
  /\ (exitStage = "matcher") =>
       /\ tx.inCap <= tx.outCap
       /\ Len(args_bytes) % BLAKE160_SIZE = 0
       /\ (status = CKB_SUCCESS) <=> (Blake160(pubkey) \in Chunks(args_bytes))
       /\ (status = ERROR_VALIDATOR_SIGNATURE_INVALID)
            <=> (Blake160(pubkey) \notin Chunks(args_bytes))

\* C9: the stages of a Transfer run in the order capacity, message,
\* signature, matcher, one after the other and never backwards; the exit
\* status is a code of the stage that returned, 0 only from the matcher; with
\* input_capacity > output_capacity the status is ERROR_CAPACITY_INVALID,
\* and when every earlier stage passed and no chunk matches it is
\* ERROR_VALIDATOR_SIGNATURE_INVALID.
C9_StageOrder ==
  /\ \A k \in 1..(Len(stages) - 1) :
       StageRank(stages[k + 1]) = StageRank(stages[k]) + 1
  /\ ~Done => (exitStage = StageOf(pc))
  /\ Done => ExitOfTransfer

\* a Transfer that passed every stage and matched no validator
C9_Witness ==
  /\ Done /\ status = ERROR_VALIDATOR_SIGNATURE_INVALID
  /\ exitStage = "matcher"
  /\ args_bytes # <<>>

\* C10: every invocation terminates with an exit status.
C10_Terminates == <>Done

====
